---- MODULE Spec2Model ----
(***************************************************************************)
(* The transaction store of src-tauri/src/main.rs: two commands,           *)
(* save_transactions and load_transactions, over one file                  *)
(* <app-data-dir>/transactions.json.                                       *)
(*                                                                         *)
(* The file is a sequence of bytes.  A byte is written here as the text it *)
(* stands for: "[" "," "\"" are the JSON punctuation bytes, "\n    " is a  *)
(* newline followed by its indentation, "id" is the run of ASCII letters   *)
(* of a field name, "0xC3" "0xA9" are the two bytes of U+00E9 in UTF-8,    *)
(* and "NUL" is the zero byte a sparse write leaves behind.                *)
(***************************************************************************)
EXTENDS Integers, Sequences, FiniteSets, TLC

(* Bounds of the model. *)
MaxLen == 2
Depth == 2
BlockSize == 22

(***************************************************************************)
(* struct Transaction: seven String fields and amount: f64.  A String is a *)
(* sequence of characters; an amount is a finite f64 with one decimal,     *)
(* held as its number of tenths (-45 is -4.5).  Amounts are finite: the    *)
(* records reach save_transactions through the command bridge, which       *)
(* decodes them from JSON numbers.                                         *)
(***************************************************************************)
FieldNames ==
  <<"id", "description", "amount", "transaction_type", "category", "account", "month", "date">>

FieldSet == {FieldNames[n] : n \in 1..Len(FieldNames)}

IsStringField(f) == f \in FieldSet \ {"amount"}

Coffee ==
  [id |-> <<"1">>, description |-> <<"a", "U+00E9">>, amount |-> -45,
   transaction_type |-> <<"e">>, category |-> <<"f">>, account |-> <<"c">>,
   month |-> <<"2", "4">>, date |-> <<"1", "5">>]

Salary ==
  [id |-> <<"1">>, description |-> <<"\"", "\\">>, amount |-> 120,
   transaction_type |-> <<"i">>, category |-> <<>>, account |-> <<"U+00E9">>,
   month |-> <<"2", "4">>, date |-> <<"3">>]

Transactions == {Coffee, Salary}

RECURSIVE SeqsUpTo(_, _)
SeqsUpTo(S, n) ==
  IF n = 0 THEN {<<>>}
  ELSE LET shorter == SeqsUpTo(S, n - 1)
       IN  shorter \cup {Append(c, t) : c \in {d \in shorter : Len(d) = n - 1}, t \in S}

(* Vec<Transaction> values the caller passes. *)
Collections == SeqsUpTo(Transactions, MaxLen)

(***************************************************************************)
(* serde_json::to_string_pretty                                            *)
(***************************************************************************)
RECURSIVE Flatten(_)
Flatten(ss) == IF ss = <<>> THEN <<>> ELSE Head(ss) \o Flatten(Tail(ss))

(* A character as UTF-8 bytes. *)
Utf8(ch) == IF ch = "U+00E9" THEN <<"0xC3", "0xA9">> ELSE <<ch>>

(* format_escaped_str_contents: quote and backslash are escaped. *)
EscapeCharRaw(ch) == Utf8(ch)

EscapeChar(ch) ==
  IF ch = "\"" THEN <<"\\", "\"">>
  ELSE IF ch = "\\" THEN <<"\\", "\\">>
  ELSE Utf8(ch)

FormatStr(s) ==
  <<"\"">> \o Flatten([n \in 1..Len(s) |-> EscapeChar(s[n])]) \o <<"\"">>

Digit(d) == <<"0", "1", "2", "3", "4", "5", "6", "7", "8", "9">>[d + 1]

RECURSIVE FormatNat(_)
FormatNat(n) == IF n < 10 THEN <<Digit(n)>> ELSE FormatNat(n \div 10) \o <<Digit(n % 10)>>

(* ryu: the shortest decimal that reads back as the same f64; 12.0 prints *)
(* as 12.0.                                                               *)
FormatF64(x) ==
  LET mag == IF x < 0 THEN 0 - x ELSE x
  IN  (IF x < 0 THEN <<"-">> ELSE <<>>) \o FormatNat(mag \div 10) \o <<".", Digit(mag % 10)>>

FormatValue(t, f) == IF IsStringField(f) THEN FormatStr(t[f]) ELSE FormatF64(t[f])

(* PrettyFormatter, indent "  ": one field of a struct, one struct, the *)
(* array of them.                                                       *)
FieldText(key, value, first) ==
  (IF first THEN <<>> ELSE <<",">>) \o <<"\n    ">> \o FormatStr(<<key>>) \o <<":", " ">> \o value

ObjectText(fields) == <<"{">> \o Flatten(fields) \o <<"\n  ", "}">>

ArrayText(objects) ==
  IF objects = <<>> THEN <<"[", "]">>
  ELSE <<"[">>
       \o Flatten([n \in 1..Len(objects) |->
            (IF n = 1 THEN <<>> ELSE <<",">>) \o <<"\n  ">> \o objects[n]])
       \o <<"\n", "]">>

FormatObject(t) ==
  ObjectText([n \in 1..Len(FieldNames) |->
                FieldText(FieldNames[n], FormatValue(t, FieldNames[n]), n = 1)])

to_string_pretty(transactions) ==
  ArrayText([n \in 1..Len(transactions) |-> FormatObject(transactions[n])])

(* The serialisation of each collection, computed once. *)
Json == [c \in Collections |-> to_string_pretty(c)]

(***************************************************************************)
(* fs::read_to_string: the bytes must be valid UTF-8.                      *)
(***************************************************************************)
Utf8Valid(bytes) ==
  \A n \in 1..Len(bytes) :
    /\ bytes[n] = "0xC3" => (n < Len(bytes) /\ bytes[n + 1] = "0xA9")
    /\ bytes[n] = "0xA9" => (n > 1 /\ bytes[n - 1] = "0xC3")

(***************************************************************************)
(* serde_json::from_str::<Vec<Transaction>>: a recursive-descent parser.   *)
(* Each parser returns [ok, val, next]: next is the index after what it    *)
(* consumed.                                                               *)
(***************************************************************************)
Whitespace == {" ", "\n", "\n  ", "\n    "}

Digits == {Digit(d) : d \in 0..9}

DigitValue(b) == CHOOSE d \in 0..9 : Digit(d) = b

Fail == [ok |-> FALSE, val |-> <<>>, next |-> 0]

At(s, i) == IF i >= 1 /\ i <= Len(s) THEN s[i] ELSE "EOF"

RECURSIVE SkipWs(_, _)
SkipWs(s, i) == IF At(s, i) \in Whitespace THEN SkipWs(s, i + 1) ELSE i

(* The element of a one-element set.  The({F(v) : v \in {e}}) is F(e) with *)
(* e evaluated once, however often F uses it.                              *)
The(S) == CHOOSE r \in S : TRUE

(* The characters of a string literal whose opening quote is at i - 1. *)
RECURSIVE ParseStrBody(_, _, _)
ParseStrBody(s, i, acc) ==
  LET b == At(s, i)
  IN  IF b = "\"" THEN [ok |-> TRUE, val |-> acc, next |-> i + 1]
      ELSE IF b = "\\"
        THEN IF At(s, i + 1) \in {"\"", "\\"}
             THEN The({ParseStrBody(s, j, a) : j \in {i + 2}, a \in {Append(acc, At(s, i + 1))}})
             ELSE Fail
      ELSE IF b = "0xC3"
        THEN The({ParseStrBody(s, j, a) : j \in {i + 2}, a \in {Append(acc, "U+00E9")}})
      ELSE IF b \in {"EOF", "NUL"} \cup Whitespace THEN Fail
      ELSE The({ParseStrBody(s, j, a) : j \in {i + 1}, a \in {Append(acc, b)}})

ParseStr(s, i) == IF At(s, i) = "\"" THEN ParseStrBody(s, i + 1, <<>>) ELSE Fail

RECURSIVE ParseNat(_, _, _)
ParseNat(s, i, acc) ==
  IF At(s, i) \in Digits
  THEN The({ParseNat(s, j, a) : j \in {i + 1}, a \in {acc * 10 + DigitValue(At(s, i))}})
  ELSE [ok |-> TRUE, val |-> acc, next |-> i]

(* The number whose digits start at j; whole is its integer part. *)
F64From(s, j, neg, whole) ==
  LET k == whole.next
      hasFrac == At(s, k) = "."
      tenths == whole.val * 10 + (IF hasFrac THEN DigitValue(At(s, k + 1)) ELSE 0)
  IN  IF At(s, j) \notin Digits THEN Fail
      ELSE IF At(s, j) = "0" /\ At(s, j + 1) \in Digits THEN Fail
      ELSE IF hasFrac /\ At(s, k + 1) \notin Digits THEN Fail
      ELSE [ok |-> TRUE, val |-> IF neg THEN 0 - tenths ELSE tenths,
            next |-> IF hasFrac THEN k + 2 ELSE k]

(* An f64: -? digits (. digit)?, no leading zero before another digit. *)
ParseF64(s, i) ==
  The({The({F64From(s, j, j # i, whole) : whole \in {ParseNat(s, j, 0)}})
       : j \in {IF At(s, i) = "-" THEN i + 1 ELSE i}})

(* The value of field f; a field the struct does not have is read and *)
(* ignored.                                                           *)
ParseValue(s, i, f) ==
  IF IsStringField(f) THEN ParseStr(s, i)
  ELSE IF f = "amount" THEN ParseF64(s, i)
  ELSE IF At(s, i) = "\"" THEN ParseStr(s, i) ELSE ParseF64(s, i)

(* The fields of an object after its "{"; acc maps the fields read so far. *)
RECURSIVE ParseFields(_, _, _)

(* After the value v of field f: "," and the next field, or "}" once all *)
(* fields are there.                                                     *)
FieldEnd(s, acc, f, v) ==
  LET e == SkipWs(s, v.next)
      acc2 == IF f \in FieldSet
              THEN [g \in DOMAIN acc \cup {f} |-> IF g = f THEN v.val ELSE acc[g]]
              ELSE acc
  IN  IF ~v.ok THEN Fail
      ELSE IF At(s, e) = "," THEN The({ParseFields(s, j, a) : j \in {e + 1}, a \in {acc2}})
      ELSE IF At(s, e) = "}" /\ DOMAIN acc2 = FieldSet
        THEN [ok |-> TRUE, val |-> acc2, next |-> e + 1]
      ELSE Fail

(* After the key: ":" and the value; a field given twice is an error. *)
FieldValue(s, acc, key) ==
  LET f == IF Len(key.val) = 1 THEN key.val[1] ELSE "?"
      c == SkipWs(s, key.next)
  IN  IF ~key.ok \/ At(s, c) # ":" \/ f \in DOMAIN acc THEN Fail
      ELSE The({FieldEnd(s, acc, f, v) : v \in {ParseValue(s, SkipWs(s, c + 1), f)}})

ParseFields(s, i, acc) ==
  The({FieldValue(s, acc, key) : key \in {ParseStr(s, SkipWs(s, i))}})

NoFields == [g \in {} |-> <<>>]

(* A struct is read from an object. *)
ParseObject(s, i) == IF At(s, i) = "{" THEN ParseFields(s, i + 1, NoFields) ELSE Fail

(* The elements of an array after its "[". *)
RECURSIVE ParseElements(_, _, _)

(* A reader that stops at the first bad element and keeps the ones before. *)
ElementEndLenient(s, acc, t) ==
  LET e == SkipWs(s, t.next)
  IN  IF ~t.ok THEN [ok |-> TRUE, val |-> acc, next |-> Len(s) + 1]
      ELSE IF At(s, e) = ","
        THEN The({ParseElements(s, j, a) : j \in {e + 1}, a \in {Append(acc, t.val)}})
      ELSE IF At(s, e) = "]" THEN [ok |-> TRUE, val |-> Append(acc, t.val), next |-> e + 1]
      ELSE Fail

ElementEnd(s, acc, t) ==
  LET e == SkipWs(s, t.next)
  IN  IF ~t.ok THEN Fail
      ELSE IF At(s, e) = ","
        THEN The({ParseElements(s, j, a) : j \in {e + 1}, a \in {Append(acc, t.val)}})
      ELSE IF At(s, e) = "]" THEN [ok |-> TRUE, val |-> Append(acc, t.val), next |-> e + 1]
      ELSE Fail

ParseElements(s, i, acc) ==
  The({ElementEnd(s, acc, t) : t \in {ParseObject(s, SkipWs(s, i))}})

ParseArray(s, i) ==
  LET j == SkipWs(s, i + 1)
  IN  IF At(s, i) # "[" THEN Fail
      ELSE IF At(s, j) = "]" THEN [ok |-> TRUE, val |-> <<>>, next |-> j + 1]
      ELSE ParseElements(s, j, <<>>)

(* The whole input is one array; only whitespace may follow it. *)
ArrayOnly(s, a) == IF a.ok /\ SkipWs(s, a.next) = Len(s) + 1 THEN a ELSE Fail

(* from_str(..).unwrap_or_default() *)
from_str_or_default(s) ==
  The({IF a.ok /\ SkipWs(s, a.next) = Len(s) + 1 THEN a ELSE [ok |-> TRUE, val |-> <<>>, next |-> 0]
       : a \in {ParseArray(s, SkipWs(s, 1))}})

from_str(s) == The({ArrayOnly(s, a) : a \in {ParseArray(s, SkipWs(s, 1))}})

(***************************************************************************)
(* The file system and the host.                                           *)
(*   hostDir  whether path_resolver().app_data_dir() is Some               *)
(*   dirs     how many of the Depth components of the data directory exist *)
(*   mkdirOk  whether a missing component may be created                   *)
(*   file     transactions.json: absent, or its bytes                      *)
(* The calls, for the properties:                                          *)
(*   ret      what the last call returned to the caller                    *)
(*   written  the last save that reached the file, and how far it got      *)
(*   prev     what the file held, complete, when that save began           *)
(*   made     how many directory components the last call created          *)
(* Calls that overlap, one step each:                                      *)
(*   pc, arg, off, sret  the two save calls: where each is, its argument,  *)
(*                       its file offset and what it returned              *)
(*   lpc, lret, lsaw     the load call: where it is, what it returned, and *)
(*                       where the saves were when it read the file        *)
(*   overlap             whether a save created the file while the other   *)
(*                       was writing it                                    *)
(*   lastDone            the save whose write finished last                *)
(***************************************************************************)
VARIABLES hostDir, dirs, mkdirOk, file, ret, written, prev, made,
          pc, arg, off, sret, lpc, lret, lsaw, overlap, lastDone

fsVars == <<hostDir, dirs, mkdirOk, file>>
callVars == <<ret, written, prev, made>>
raceVars == <<pc, arg, off, sret, lpc, lret, lsaw, overlap, lastDone>>
vars == <<fsVars, callVars, raceVars>>

PathError == "Failed to get data file path"
WriteError == "Failed to write transactions file"
ReadError == "Failed to read transactions file"
ParseError == "Failed to parse transactions"

Absent == [exists |-> FALSE, bytes |-> <<>>]

Ok(op, v) == [op |-> op, status |-> "ok", err |-> "", value |-> v]
Err(op, e) == [op |-> op, status |-> "err", err |-> e, value |-> <<>>]
NoReturn(op) == [op |-> op, status |-> "none", err |-> "", value |-> <<>>]

Nothing == [state |-> "none", arg |-> <<>>, lost |-> FALSE]

(* fs::create_dir_all: Ok when the directory is there, else every missing *)
(* component is created.                                                  *)
create_dir(n, can) ==
  IF n = Depth THEN [ok |-> TRUE, dirs |-> n]
  ELSE IF can /\ n = Depth - 1 THEN [ok |-> TRUE, dirs |-> Depth]
  ELSE [ok |-> FALSE, dirs |-> n]

create_dir_all(n, can) ==
  IF n = Depth THEN [ok |-> TRUE, dirs |-> n]
  ELSE IF can THEN [ok |-> TRUE, dirs |-> Depth]
  ELSE [ok |-> FALSE, dirs |-> n]

get_data_file_path_unchecked(host, n, can) == [ok |-> TRUE, dirs |-> n]

get_data_file_path(host, n, can) ==
  IF ~host THEN [ok |-> FALSE, dirs |-> n] ELSE create_dir_all(n, can)

(* File::create: the file is created, or emptied. *)
File_open(f) == [exists |-> TRUE, bytes |-> f.bytes]

File_create(f) == [exists |-> TRUE, bytes |-> <<>>]

(* One write of chunk at offset at; a gap before it reads as zero bytes. *)
WriteAt(bytes, at, chunk) ==
  LET end == at + Len(chunk)
      gap == [i \in 1..(at - Len(bytes)) |-> "NUL"]
  IN  (IF at <= Len(bytes) THEN SubSeq(bytes, 1, at) ELSE bytes \o gap)
      \o chunk
      \o SubSeq(bytes, end + 1, Len(bytes))

(* fs::write that got n bytes of contents out. *)
fs_append(f, contents, n) ==
  [exists |-> TRUE, bytes |-> f.bytes \o SubSeq(contents, 1, n)]

fs_write(f, contents, n) ==
  [exists |-> TRUE, bytes |-> WriteAt(File_create(f).bytes, 0, SubSeq(contents, 1, n))]

(* Where a write can stop short: at a block boundary. *)
Cuts(contents) == {k \in 0..(Len(contents) - 1) : k % BlockSize = 0}

(* What the file system does to one fs::write. *)
IoOutcomes(contents) ==
  {[kind |-> "done", n |-> Len(contents)], [kind |-> "create_fails", n |-> 0]}
  \cup {[kind |-> "short", n |-> k] : k \in Cuts(contents)}

(* load_transactions once the path is resolved. *)
read_missing_is_error(f) ==
  IF ~f.exists \/ ~Utf8Valid(f.bytes) THEN Err("load", ReadError)
  ELSE LET parsed == from_str(f.bytes)
       IN  IF parsed.ok THEN Ok("load", parsed.val) ELSE Err("load", ParseError)

read_transactions(f) ==
  IF ~f.exists THEN Ok("load", <<>>)
  ELSE IF ~Utf8Valid(f.bytes) THEN Err("load", ReadError)
  ELSE LET parsed == from_str(f.bytes)
       IN  IF parsed.ok THEN Ok("load", parsed.val) ELSE Err("load", ParseError)

Held(w) == IF w.state \in {"complete", "earlier"} THEN w ELSE Nothing

(* One call of save_transactions, run to its return. *)
Save(transactions, io) ==
  LET path == get_data_file_path(hostDir, dirs, mkdirOk)
      json == Json[transactions]
  IN  /\ dirs' = path.dirs
      /\ made' = path.dirs - dirs
      /\ UNCHANGED <<hostDir, mkdirOk, raceVars>>
      /\ IF ~path.ok
           THEN /\ ret' = Err("save", PathError)
                /\ UNCHANGED <<file, written, prev>>
         ELSE IF io.kind = "create_fails"
           THEN /\ ret' = Err("save", WriteError)
                /\ UNCHANGED <<file, written, prev>>
         ELSE IF io.kind = "short"
           THEN /\ ret' = Err("save", WriteError)
                /\ file' = fs_write(file, json, io.n)
                /\ written' = [state |-> "partial", arg |-> transactions,
                               lost |-> Held(written) # Nothing]
                /\ prev' = Nothing
         ELSE /\ ret' = Ok("save", <<>>)
              /\ file' = fs_write(file, json, Len(json))
              /\ written' = [state |-> "complete", arg |-> transactions, lost |-> FALSE]
              /\ prev' = Held(written)

save_transactions ==
  \E transactions \in Collections :
    \E io \in IoOutcomes(Json[transactions]) : Save(transactions, io)

(* The process ends inside fs::write, n bytes out: nothing is returned. *)
save_interrupted ==
  \E transactions \in Collections :
    LET path == get_data_file_path(hostDir, dirs, mkdirOk)
        json == Json[transactions]
    IN  /\ path.ok
        /\ \E n \in Cuts(json) :
             /\ file' = fs_write(file, json, n)
             /\ written' = [state |-> "partial", arg |-> transactions,
                            lost |-> Held(written) # Nothing]
        /\ dirs' = path.dirs
        /\ made' = path.dirs - dirs
        /\ ret' = NoReturn("save")
        /\ prev' = Nothing
        /\ UNCHANGED <<hostDir, mkdirOk, raceVars>>

(* One call of load_transactions. *)
load_transactions ==
  LET path == get_data_file_path(hostDir, dirs, mkdirOk)
  IN  /\ dirs' = path.dirs
      /\ made' = path.dirs - dirs
      /\ ret' = IF path.ok THEN read_transactions(file) ELSE Err("load", PathError)
      /\ UNCHANGED <<hostDir, mkdirOk, file, written, prev, raceVars>>

(***************************************************************************)
(* The file edited by hand, outside the program, while it holds a complete *)
(* encoding: a field removed, a value of the wrong type, a punctuation     *)
(* byte lost, or the whitespace taken out (which leaves it valid).         *)
(***************************************************************************)
EditKinds == {"no_field", "wrong_type", "no_colon"}

Edits(c) ==
  {[kind |-> k, rec |-> n, field |-> f] : k \in EditKinds, n \in 1..Len(c), f \in 1..Len(FieldNames)}
  \cup {[kind |-> k, rec |-> n, field |-> 0] : k \in {"no_open_brace", "no_close_brace"}, n \in 1..Len(c)}
  \cup {[kind |-> k, rec |-> 0, field |-> 0] : k \in {"no_open_bracket", "no_close_bracket", "minify"}}

WrongValue(f) == IF IsStringField(f) THEN FormatF64(0) ELSE FormatStr(<<"a">>)

RECURSIVE Without(_, _)
Without(s, b) ==
  IF s = <<>> THEN <<>>
  ELSE IF Head(s) = b THEN Tail(s)
  ELSE <<Head(s)>> \o Without(Tail(s), b)

(* The bytes lo..hi of s that are not whitespace. *)
RECURSIVE StripRange(_, _, _)
StripRange(s, lo, hi) ==
  IF lo > hi THEN <<>>
  ELSE IF lo = hi THEN (IF s[lo] \in Whitespace THEN <<>> ELSE <<s[lo]>>)
  ELSE The({StripRange(s, lo, mid) \o StripRange(s, mid + 1, hi) : mid \in {(lo + hi) \div 2}})

StripWs(s) == The({StripRange(t, 1, Len(t)) : t \in {s}})

EditedField(t, n, e) ==
  LET f == FieldNames[n]
      first == n = 1 \/ (n = 2 /\ e.kind = "no_field" /\ e.field = 1)
      text == FieldText(f, FormatValue(t, f), first)
  IN  IF e.field # n THEN text
      ELSE IF e.kind = "no_field" THEN <<>>
      ELSE IF e.kind = "wrong_type" THEN FieldText(f, WrongValue(f), first)
      ELSE Without(text, ":")

EditedObject(t, e) ==
  LET text == ObjectText([n \in 1..Len(FieldNames) |-> EditedField(t, n, e)])
  IN  IF e.kind = "no_open_brace" THEN Tail(text)
      ELSE IF e.kind = "no_close_brace" THEN SubSeq(text, 1, Len(text) - 1)
      ELSE text

Edited(c, e) ==
  LET noEdit == [kind |-> "none", rec |-> 0, field |-> 0]
      text == ArrayText([n \in 1..Len(c) |-> EditedObject(c[n], IF e.rec = n THEN e ELSE noEdit)])
  IN  IF e.kind = "no_open_bracket" THEN Tail(text)
      ELSE IF e.kind = "no_close_bracket" THEN SubSeq(text, 1, Len(text) - 1)
      ELSE IF e.kind = "minify" THEN StripWs(text)
      ELSE text

hand_edit ==
  /\ file.exists
  /\ written.state \in {"complete", "earlier"}
  /\ \E e \in Edits(written.arg) : file' = [exists |-> TRUE, bytes |-> Edited(written.arg, e)]
  /\ written' = [state |-> "edited", arg |-> written.arg, lost |-> FALSE]
  /\ ret' = NoReturn("edit")
  /\ prev' = Nothing
  /\ made' = 0
  /\ UNCHANGED <<hostDir, dirs, mkdirOk, raceVars>>

(***************************************************************************)
(* Overlapping calls.  The commands are async: the host runs two saves and *)
(* a load at once, and their file-system calls interleave.                 *)
(***************************************************************************)
Savers == {1, 2}

RaceInputs == {c \in Collections : Len(c) <= 1}

(* Path resolution and serialisation of save call p. *)
save_begin(p) ==
  /\ pc[p] = "idle"
  /\ \E transactions \in RaceInputs : arg' = [arg EXCEPT ![p] = transactions]
  /\ LET path == get_data_file_path(hostDir, dirs, mkdirOk)
     IN  /\ dirs' = path.dirs
         /\ pc' = [pc EXCEPT ![p] = IF path.ok THEN "path" ELSE "done"]
         /\ sret' = [sret EXCEPT ![p] = IF path.ok THEN @ ELSE Err("save", PathError)]
  /\ UNCHANGED <<hostDir, mkdirOk, file, callVars, off, lpc, lret, lsaw, overlap, lastDone>>

(* fs::write, first half: File::create. *)
save_create(p) ==
  /\ pc[p] = "path"
  /\ file' = File_create(file)
  /\ off' = [off EXCEPT ![p] = 0]
  /\ pc' = [pc EXCEPT ![p] = "writing"]
  /\ overlap' = (overlap \/ \E q \in Savers \ {p} : pc[q] = "writing")
  /\ UNCHANGED <<hostDir, dirs, mkdirOk, callVars, arg, sret, lpc, lret, lsaw, lastDone>>

(* fs::write, second half: write_all, one write call of one or more blocks. *)
save_write(p) ==
  /\ pc[p] = "writing"
  /\ LET json == Json[arg[p]]
     IN  \E n \in 1..(Len(json) - off[p]) :
           /\ off[p] + n = Len(json) \/ (off[p] + n) % BlockSize = 0
           /\ file' = [exists |-> TRUE,
                       bytes |-> WriteAt(file.bytes, off[p], SubSeq(json, off[p] + 1, off[p] + n))]
           /\ off' = [off EXCEPT ![p] = @ + n]
           /\ IF off[p] + n = Len(json)
                THEN /\ pc' = [pc EXCEPT ![p] = "done"]
                     /\ sret' = [sret EXCEPT ![p] = Ok("save", <<>>)]
                     /\ lastDone' = p
                ELSE UNCHANGED <<pc, sret, lastDone>>
  /\ UNCHANGED <<hostDir, dirs, mkdirOk, callVars, arg, lpc, lret, lsaw, overlap>>

(* Path resolution and file_path.exists() of the load call. *)
load_begin ==
  /\ lpc = "idle"
  /\ LET path == get_data_file_path(hostDir, dirs, mkdirOk)
     IN  /\ dirs' = path.dirs
         /\ lpc' = IF path.ok /\ file.exists THEN "read" ELSE "done"
         /\ lret' = IF ~path.ok THEN Err("load", PathError)
                    ELSE IF ~file.exists THEN Ok("load", <<>>)
                    ELSE lret
         /\ lsaw' = IF path.ok /\ file.exists THEN lsaw ELSE pc
  /\ UNCHANGED <<hostDir, mkdirOk, file, callVars, pc, arg, off, sret, overlap, lastDone>>

(* fs::read_to_string and serde_json::from_str of the load call. *)
load_read ==
  /\ lpc = "read"
  /\ lret' = read_transactions(file)
  /\ lsaw' = pc
  /\ lpc' = "done"
  /\ UNCHANGED <<fsVars, callVars, pc, arg, off, sret, overlap, lastDone>>

NoRace ==
  /\ pc = [p \in Savers |-> "idle"]
  /\ arg = [p \in Savers |-> <<>>]
  /\ off = [p \in Savers |-> 0]
  /\ sret = [p \in Savers |-> NoReturn("save")]
  /\ lpc = "idle"
  /\ lret = NoReturn("load")
  /\ lsaw = [p \in Savers |-> "idle"]
  /\ overlap = FALSE
  /\ lastDone = 0

(* First start: no file.  A later start: the file an earlier run saved. *)
FsInit(earlier) ==
  /\ hostDir \in BOOLEAN
  /\ mkdirOk \in BOOLEAN
  /\ dirs \in 0..Depth
  /\ \/ file = Absent /\ written = Nothing
     \/ /\ dirs = Depth
        /\ \E c \in earlier :
             /\ file = fs_write(Absent, Json[c], Len(Json[c]))
             /\ written = [state |-> "earlier", arg |-> c, lost |-> FALSE]
  /\ ret = NoReturn("none")
  /\ prev = Nothing
  /\ made = 0

Init == FsInit(Collections) /\ NoRace

(* Calls one at a time, each awaited before the next. *)
Next ==
  \/ save_transactions
  \/ save_interrupted
  \/ load_transactions

Spec == Init /\ [][Next]_vars

(* The same, with the file open to edits by hand between calls. *)
NextEdit ==
  \/ Next
  \/ hand_edit

SpecEdit == Init /\ [][NextEdit]_vars

(* Two saves and a load, overlapping. *)
InitRace == FsInit(RaceInputs) /\ NoRace

NextRace ==
  \/ \E p \in Savers : save_begin(p) \/ save_create(p) \/ save_write(p)
  \/ load_begin
  \/ load_read

SpecRace == InitRace /\ [][NextRace]_vars

(***************************************************************************)
(* The properties.                                                         *)
(***************************************************************************)
Range(s) == {s[n] : n \in 1..Len(s)}

Done(t) == [kind |-> "done", n |-> Len(Json[t])]

Overwrite ==
  (ret.op = "load" /\ written.state = "complete" /\ prev.state \in {"complete", "earlier"}) =>
    /\ ret = Ok("load", written.arg)
    /\ \A t \in Range(prev.arg) \ Range(written.arg) : t \notin Range(ret.value)

(* B shorter than A. *)
OverwriteWitness ==
  /\ ret.op = "load"
  /\ prev.state = "complete"
  /\ prev.arg = <<Coffee, Salary>>
  /\ written.state = "complete"
  /\ written.arg = <<Salary>>
  /\ ret.value = <<Salary>>

(* C3. First run.  A load that resolves the path and finds no file returns *)
(* ok with the empty collection and leaves the file absent; and when a     *)
(* load returns the empty collection over a file that exists, the file     *)
(* holds the encoding of the empty collection.                             *)
FirstRunReturn ==
  /\ (ret.op = "load" /\ hostDir /\ dirs = Depth /\ ~file.exists) => ret = Ok("load", <<>>)
  /\ (ret.op = "load" /\ ret.status = "ok" /\ ret.value = <<>> /\ file.exists) =>
       StripWs(file.bytes) = <<"[", "]">>

FirstRunStep == (~file.exists /\ load_transactions) => ~file'.exists

FirstRun == []FirstRunReturn /\ [][FirstRunStep]_vars

(* The first load of a first run, the directory made on the way. *)
FirstRunWitness ==
  /\ ret = Ok("load", <<>>)
  /\ ~file.exists
  /\ written = Nothing
  /\ made > 0

(* C5. Directory creation.  A save that finds the data directory missing,  *)
(* with creation permitted, does not fail on the path, and returns ok when *)
(* its write completes; after every call that got past path resolution all *)
(* components of the directory exist; a call that finds the directory      *)
(* there does not fail on the path and a load leaves its file as it is.    *)
DirsExistAfter ==
  (ret.op \in {"save", "load"} /\ ret.err # PathError) => dirs = Depth

SaveCreatesDirs ==
  (hostDir /\ mkdirOk /\ dirs < Depth) =>
    \A t \in Collections : \A io \in IoOutcomes(Json[t]) :
      Save(t, io) =>
        /\ dirs' = Depth
        /\ ret'.err # PathError
        /\ io = Done(t) => (ret' = Ok("save", <<>>) /\ file'.exists)

CreationIdempotent ==
  (hostDir /\ dirs = Depth /\ ret'.op = "load" /\ load_transactions) =>
    (ret'.err # PathError /\ dirs' = Depth /\ file' = file)

DirAutoCreate == []DirsExistAfter /\ [][SaveCreatesDirs /\ CreationIdempotent]_vars

(* A save created every component of the directory and returned ok. *)
DirAutoCreateWitness ==
  /\ ret = Ok("save", <<>>)
  /\ dirs = Depth
  /\ made = Depth
  /\ written.state = "complete"
  /\ written.arg = <<Coffee>>

(* C6. Path failure.  When the host supplies no directory, or a missing    *)
(* directory cannot be created, save and load return the path error, no    *)
(* records, and the file is as before.  A save that returned ok wrote the  *)
(* whole encoding of its argument.                                         *)
PathFails == ~hostDir \/ (dirs < Depth /\ ~mkdirOk)

PathFailureStep ==
  (PathFails /\ (save_transactions \/ load_transactions)) =>
    /\ ret' \in {Err("save", PathError), Err("load", PathError)}
    /\ file' = file

SaveOkWrote ==
  (ret.op = "save" /\ ret.status = "ok") =>
    (file.exists /\ written.state = "complete" /\ file.bytes = to_string_pretty(written.arg))

PathFailure == []SaveOkWrote /\ [][PathFailureStep]_vars

(* A save failed on the path while an earlier run's file was there. *)
PathFailureWitness ==
  /\ ret = Err("save", PathError)
  /\ file.exists
  /\ ~hostDir

(* C9. Idempotence.  A load leaves the file as it is, and a load that      *)
(* follows a load returns the same; a save that returns ok leaves the      *)
(* encoding of its argument whatever the file held, so saving the same     *)
(* collection again leaves the file as it is.                              *)
LoadIdempotent ==
  (ret'.op = "load" /\ load_transactions) => (file' = file /\ (ret.op = "load" => ret' = ret))

SaveIdempotent ==
  \A t \in {written'.arg} :
    (ret' = Ok("save", <<>>) /\ Save(t, Done(t))) =>
      /\ file' = [exists |-> TRUE, bytes |-> Json[t]]
      /\ (ret = Ok("save", <<>>) /\ written.arg = t) => file' = file

Idempotence == [][LoadIdempotent /\ SaveIdempotent]_vars

(* The same collection saved twice in a row, over a longer one. *)
IdempotenceWitness ==
  /\ ret = Ok("save", <<>>)
  /\ written.arg = <<Coffee>>
  /\ prev.state = "complete"
  /\ prev.arg = <<Coffee>>

(* C10. No fabricated data.  With saves interrupted anywhere in their      *)
(* write, a load that returns ok returns the empty collection over no      *)
(* file, or the whole argument of the save that last reached the file; and *)
(* over a file an interrupted save left empty or cut short it returns an   *)
(* error.                                                                  *)
NoFabrication ==
  /\ (ret.op = "load" /\ ret.status = "ok") =>
       \/ ~file.exists /\ ret.value = <<>>
       \/ file.exists /\ written.state \in {"complete", "earlier"} /\ ret.value = written.arg
  /\ (ret.op = "load" /\ written.state = "partial") => ret.status = "err"

(* A load after an interrupted save that emptied a file holding a saved *)
(* collection: the collection is gone.                                  *)
NoFabricationWitness ==
  /\ ret.op = "load"
  /\ ret.status = "err"
  /\ written.state = "partial"
  /\ written.lost
  /\ file.bytes = <<>>

(* What counts as an encoding of a collection: the serialisation of one, *)
(* whitespace aside.                                                     *)
Encodings == {StripWs(Json[c]) : c \in Collections}

ValidEncoding(bytes) == StripWs(bytes) \in Encodings

(* C4 as stated.  Whenever the file exists and does not hold a complete    *)
(* valid encoding, a load returns the deserialization error and no record. *)
MalformedIsParseError ==
  (ret.op = "load" /\ hostDir /\ file.exists /\ ~ValidEncoding(file.bytes)) =>
    ret = Err("load", ParseError)

(* C4, amended.  Whenever the file exists and does not hold a complete     *)
(* valid encoding, a load returns an error and no record: the read error   *)
(* when the bytes are not UTF-8 (a cut inside a character), and the        *)
(* deserialization error otherwise.                                        *)
MalformedIsError ==
  (ret.op = "load" /\ hostDir /\ file.exists /\ ~ValidEncoding(file.bytes)) =>
    ret = Err("load", IF Utf8Valid(file.bytes) THEN ParseError ELSE ReadError)

(* The second of two records lost a field to an edit, and a load failed. *)
MalformedWitness ==
  /\ ret = Err("load", ParseError)
  /\ written.state = "edited"
  /\ Len(written.arg) = 2
  /\ \E e \in Edits(written.arg) :
       e.kind = "no_field" /\ e.rec = 2 /\ file.bytes = Edited(written.arg, e)

(* C7 as stated.  A load that reads the file while one save is in progress *)
(* over a file holding a saved collection A returns A or the save's        *)
(* argument, whole.                                                        *)
LoadSeesWholeAlways ==
  \A p \in Savers :
    (/\ lpc = "done"
     /\ written.state = "earlier"
     /\ lsaw[p] \in {"path", "writing"}
     /\ \A q \in Savers \ {p} : lsaw[q] = "idle") =>
      lret \in {Ok("load", written.arg), Ok("load", arg[p])}

(* C7, amended.  A load whose read comes before the save creates (empties) *)
(* the file returns A, and one whose read comes after the save's last      *)
(* write returns the save's argument; only a read between the two sees the *)
(* file emptied or partly written.                                         *)
LoadSeesWhole ==
  \A p \in Savers :
    (/\ lpc = "done"
     /\ written.state = "earlier"
     /\ \A q \in Savers \ {p} : lsaw[q] = "idle") =>
      /\ lsaw[p] = "path" => lret = Ok("load", written.arg)
      /\ (lsaw[p] = "done" /\ sret[p].status = "ok") => lret = Ok("load", arg[p])
      /\ lret.status = "ok" => lsaw[p] # "writing"

(* The load read the file while the save had resolved its path and not *)
(* yet created the file, and returned A.                               *)
LoadSeesWholeWitness ==
  /\ lpc = "done"
  /\ written.state = "earlier"
  /\ written.arg = <<Coffee>>
  /\ lsaw = [p \in Savers |-> IF p = 1 THEN "path" ELSE "idle"]
  /\ arg[1] = <<Salary>>
  /\ lret = Ok("load", <<Coffee>>)

(* C8 as stated.  When two overlapping saves both return ok, the file      *)
(* holds the complete encoding of the argument of the one that finished    *)
(* last.                                                                   *)
BothSaved == \A p \in Savers : pc[p] = "done" /\ sret[p].status = "ok"

LastWriterWinsAlways == BothSaved => file.bytes = to_string_pretty(arg[lastDone])

(* C8, amended.  When both return ok and neither created the file while    *)
(* the other was writing it, the file holds the complete encoding of the   *)
(* argument of the one that finished last, and a load that reads it then   *)
(* returns that argument.                                                  *)
LastWriterWins ==
  (BothSaved /\ ~overlap) =>
    /\ file.bytes = to_string_pretty(arg[lastDone])
    /\ (lpc = "done" /\ lsaw = pc) => lret = Ok("load", arg[lastDone])

(* The second save, of a shorter encoding, ran after the first. *)
LastWriterWinsWitness ==
  /\ BothSaved
  /\ ~overlap
  /\ lastDone = 2
  /\ arg = [p \in Savers |-> IF p = 1 THEN <<Coffee>> ELSE <<>>]
  /\ lpc = "done"
  /\ lsaw = pc
  /\ lret = Ok("load", <<>>)
====
